---- MODULE Spec2Model ----
(***************************************************************************)
(* Model of hw5.py: class QuestionnaireAnalysis.  One table of             *)
(* questionnaire records is held in self.data; five analysis operations    *)
(* and the helper validate_mail read it and return new values.             *)
(*                                                                         *)
(* Numbers are exact rationals <<numerator, denominator>> in lowest terms  *)
(* with denominator > 0.  A pair whose denominator is 0 is not a number:   *)
(* <<0, 0>> is the float NaN (pandas' missing value of a numeric column)   *)
(* and <<1, 0>> is pd.NA (the missing marker of the nullable UInt8         *)
(* column).                                                                *)
(*                                                                         *)
(* A DataFrame is [index |-> sequence of row labels, rows |-> sequence of  *)
(* records].  A string is a sequence of one-character strings.             *)
(***************************************************************************)
EXTENDS Integers, Sequences, FiniteSets, TLC

VARIABLES
    data,     \* self.data, the loaded DataFrame
    loaded,   \* history: the DataFrame as read_data produced it
    op,       \* name of the last method called ("none" before any call)
    arg,      \* its argument (0 for methods without one)
    ret,      \* what it returned, or the exception it raised
    again     \* history: the last call repeated the call before it

vars == <<data, loaded, op, arg, ret, again>>

-----------------------------------------------------------------------------
(* Bounds of the model *)

MaxRows == 2      \* rows of the loaded table
MaxLen == 4       \* length of the strings given to validate_mail

-----------------------------------------------------------------------------
(* Values *)

NaN == <<0, 0>>
NA == <<1, 0>>

Num(n) == <<n, 1>>

isna(x) == x[2] = 0

notna(x) == x[2] # 0

RECURSIVE GCD(_, _)
GCD(a, b) == IF b = 0 THEN a ELSE GCD(b, a % b)

\* float division n / d of two non-negative integers; 0 / 0 is NaN
Div(n, d) == IF d = 0 THEN NaN ELSE <<n \div GCD(n, d), d \div GCD(n, d)>>

RECURSIVE SumSeq(_)
SumSeq(s) == IF s = <<>> THEN 0 ELSE Head(s) + SumSeq(Tail(s))

\* pandas Series.mean(): NaN cells are skipped, an empty mean is NaN.
\* The cells averaged are cells of the loaded table, which hold integers.
mean(cells) ==
    LET present == SelectSeq(cells, notna)
    IN  Div(SumSeq([i \in 1..Len(present) |-> present[i][1]]), Len(present))

\* pandas Series.count(): the number of non-missing cells
count(cells) == Len(SelectSeq(cells, notna))

\* math.floor of a float that is a number (on NaN it raises ValueError, which
\* score_subjects below models where it calls floor)
floor(x) == x[1] \div x[2]

\* Python's False and True as the numbers they compare equal to
PyFalse == Num(0)

PyTrue == Num(1)

\* x > n and x < n and x <= n for a number x and an integer n
gt(x, n) == x[1] > n * x[2]

lt(x, n) == x[1] < n * x[2]

le(x, n) == x[1] <= n * x[2]

cols == <<"q1", "q2", "q3", "q4", "q5">>

\* df[cols] of one row: the five grade cells in column order
RowCells(row) == [j \in 1..Len(cols) |-> row[cols[j]]]

\* one column of a table as a sequence of cells
Column(rows, c) == [i \in 1..Len(rows) |-> rows[i][c]]

RangeIndex(n) == [i \in 1..n |-> i - 1]

NoRet ==
    [status |-> "none", df |-> [index |-> <<>>, rows |-> <<>>], arr |-> <<>>,
     hist |-> <<>>, bins |-> <<>>, groups |-> {}, valid |-> "none"]

-----------------------------------------------------------------------------
(* validate_mail: the conjunction is evaluated left to right and stops at   *)
(* the first false conjunct; an index outside the string raises IndexError. *)
(* The result is "True", "False" or "IndexError".                           *)

\* str.count of a one-character string
count_char(s, c) == Cardinality({i \in 1..Len(s) : s[i] = c})

\* c in s
contains(s, c) == \E i \in 1..Len(s) : s[i] = c

\* str.find: the 0-based position of the first c, or -1
find(s, c) ==
    IF contains(s, c)
    THEN (CHOOSE i \in 1..Len(s) : s[i] = c /\ \A j \in 1..(i - 1) : s[j] # c) - 1
    ELSE -1

\* s[i] with Python's negative indices
getitem(s, i) ==
    LET j == IF i < 0 THEN i + Len(s) ELSE i
    IN  IF j < 0 \/ j >= Len(s) THEN "IndexError" ELSE s[j + 1]

bool(b) == IF b THEN "True" ELSE "False"

\* x != c, where evaluating x may have raised
ne(x, c) == IF x = "IndexError" THEN "IndexError" ELSE bool(x # c)

\* a and b: b is evaluated only when a is true; an exception in a propagates
and(a, b) == IF a = "True" THEN b ELSE a

\* a plausible bug: the index rules are tested before the content rules
validate_mail_index_first(email) ==
    and(ne(getitem(email, 0), "@"),
    and(ne(getitem(email, 0), "."),
    and(ne(getitem(email, -1), "@"),
    and(ne(getitem(email, -1), "."),
    and(ne(getitem(email, find(email, "@") + 1), "."),
    and(bool(count_char(email, "@") = 1),
        bool(contains(email, "."))))))))

\* a plausible bug: the rule on the character after "@" is forgotten
validate_mail_no_rule7(email) ==
    and(bool(count_char(email, "@") = 1),
    and(bool(contains(email, ".")),
    and(ne(getitem(email, 0), "@"),
    and(ne(getitem(email, 0), "."),
    and(ne(getitem(email, -1), "@"),
        ne(getitem(email, -1), "."))))))

validate_mail(email) ==
    and(bool(count_char(email, "@") = 1),
    and(bool(contains(email, ".")),
    and(ne(getitem(email, 0), "@"),
    and(ne(getitem(email, 0), "."),
    and(ne(getitem(email, -1), "@"),
    and(ne(getitem(email, -1), "."),
        ne(getitem(email, find(email, "@") + 1), ".")))))))

-----------------------------------------------------------------------------
(* Q1: show_age_distrib *)

bin_edges == <<0, 10, 20, 30, 40, 50, 60, 70, 80, 90, 100>>

\* a plausible bug: the missing ages are not skipped and count as age 0
collect_ages_as_zero(rows) ==
    [i \in 1..Len(rows) |-> IF isna(rows[i].age) THEN Num(0) ELSE rows[i].age]

\* the loop of show_age_distrib: the ages that are not NaN, in row order
collect_ages(rows) == SelectSeq(Column(rows, "age"), notna)

\* numpy's histogram over explicit edges: the number of values below each
\* edge (for the last edge: not above it), then the differences
histogram(values, edges) ==
    LET n == Len(edges)
        cum == [k \in 1..n |->
                  IF k < n
                  THEN Cardinality({i \in 1..Len(values) : lt(values[i], edges[k])})
                  ELSE Cardinality({i \in 1..Len(values) : le(values[i], edges[k])})]
    IN  [k \in 1..(n - 1) |-> cum[k + 1] - cum[k]]

show_age_distrib(d) ==
    [NoRet EXCEPT !.status = "ok",
                  !.hist = histogram(collect_ages(d.rows), bin_edges),
                  !.bins = bin_edges]

-----------------------------------------------------------------------------
(* Q2: remove_rows_without_mail *)

\* a plausible bug: the rows are filtered in place of being rebuilt, so the
\* kept rows keep their original labels
filter_records_keep_labels(d) ==
    LET keep == SelectSeq(RangeIndex(Len(d.rows)),
                          LAMBDA i : validate_mail(d.rows[i + 1].email) = "True")
    IN  [index |-> [k \in 1..Len(keep) |-> d.index[keep[k] + 1]],
         rows |-> [k \in 1..Len(keep) |-> d.rows[keep[k] + 1]]]

\* the list comprehension and pd.DataFrame(data=filtered)
filter_records(d) ==
    LET filtered == SelectSeq(d.rows, LAMBDA p : validate_mail(p.email) = "True")
    IN  [index |-> RangeIndex(Len(filtered)), rows |-> filtered]

remove_rows_without_mail(d) ==
    IF \E i \in 1..Len(d.rows) : validate_mail(d.rows[i].email) = "IndexError"
    THEN [NoRet EXCEPT !.status = "IndexError"]
    ELSE [NoRet EXCEPT !.status = "ok", !.df = filter_records(d)]

-----------------------------------------------------------------------------
(* Q3: fill_na_with_mean *)

ColSet == {cols[j] : j \in 1..Len(cols)}

\* a plausible bug: only the rows with no grade at all are reported
na_rows_all(d) ==
    LET pos == SelectSeq([i \in 1..Len(d.rows) |-> i],
                         LAMBDA i : \A c \in ColSet : isna(d.rows[i][c]))
    IN  [k \in 1..Len(pos) |-> d.index[pos[k]]]

\* df_q.isna().any(axis=1), s.index[s]: the labels of the rows with a NaN grade
na_rows(d) ==
    LET pos == SelectSeq([i \in 1..Len(d.rows) |-> i],
                         LAMBDA i : \E c \in ColSet : isna(d.rows[i][c]))
    IN  [k \in 1..Len(pos) |-> d.index[pos[k]]]

\* df_q.mean(): one mean per column, over the rows
column_means(rows) == [c \in ColSet |-> mean(Column(rows, c))]

\* df_q.fillna(df_q.mean()) merged back with the other columns: every NaN
\* grade becomes the mean of its column (a NaN mean leaves it NaN)
fillna(d) ==
    LET m == column_means(d.rows)
    IN  [index |-> d.index,
         rows |-> [i \in 1..Len(d.rows) |->
                     [f \in DOMAIN d.rows[i] |->
                        IF f \in ColSet /\ isna(d.rows[i][f]) /\ notna(m[f])
                        THEN m[f]
                        ELSE d.rows[i][f]]]]

\* a plausible bug: the grades are filled in the table df, which is self.data
self_data_filled_in_place(d) == fillna(d)

\* self.data after fill_na_with_mean: df is self.data, and it is only read
\* (df[cols], fillna, drop and concat all return new tables)
self_data_after_fill(d) == d

fill_na_with_mean(d) ==
    [NoRet EXCEPT !.status = "ok", !.df = fillna(d), !.arr = na_rows(d)]

-----------------------------------------------------------------------------
(* Q4: score_subjects *)

\* the labels of the rows with more than maximal_nans_per_sub NaN grades
nans(d, maximal_nans_per_sub) ==
    {d.index[i] : i \in {k \in 1..Len(d.rows) :
        Len(cols) - count(RowCells(d.rows[k])) > maximal_nans_per_sub}}

\* a plausible bug: the mean is rounded up
row_score_ceil(row) ==
    LET m == mean(RowCells(row)) IN Num(-((-m[1]) \div m[2]))

\* math.floor(row.mean()) of a row whose mean is a number
row_score(row) == Num(floor(mean(RowCells(row))))

\* the score list after the NA assignments, zero-based positions 0..n-1
scores(d, maximal_nans_per_sub) ==
    [i \in 1..Len(d.rows) |->
        IF (i - 1) \in nans(d, maximal_nans_per_sub)
        THEN NA
        ELSE row_score(d.rows[i])]

score_subjects(d, maximal_nans_per_sub) ==
    IF \E i \in 1..Len(d.rows) : isna(mean(RowCells(d.rows[i])))
    THEN \* math.floor(nan) raises while the list of means is built
         [NoRet EXCEPT !.status = "ValueError"]
    ELSE [NoRet EXCEPT
            !.status = "ok",
            !.df = [index |-> d.index,
                    rows |-> [i \in 1..Len(d.rows) |->
                                [f \in DOMAIN d.rows[i] \cup {"score"} |->
                                   IF f = "score"
                                   THEN scores(d, maximal_nans_per_sub)[i]
                                   ELSE d.rows[i][f]]]]]

-----------------------------------------------------------------------------
(* Q5: correlate_gender_age *)

\* a plausible bug: the rows without an age are not dropped
drop_no_age_missing(rows) == rows

\* df[df['age'].notnull()]
drop_no_age(rows) == SelectSeq(rows, LAMBDA r : notna(r.age))

\* s.where(s > 40, False) then s.where(s == False, True), for one age.
\* NaN > 40 is false.
over40(age) ==
    LET s1 == IF notna(age) /\ gt(age, 40) THEN age ELSE PyFalse
    IN  IF s1 = PyFalse THEN PyFalse ELSE PyTrue

\* groupby(['gender', 'age']).mean()[cols]: one row per observed key
correlate_gender_age(d) ==
    LET df == drop_no_age(d.rows)
        keyed == [i \in 1..Len(df) |-> [df[i] EXCEPT !.age = over40(df[i].age)]]
        keys == {<<keyed[i].gender, keyed[i].age>> : i \in 1..Len(keyed)}
        group(k) == SelectSeq(keyed, LAMBDA r : <<r.gender, r.age>> = k)
    IN  [NoRet EXCEPT
            !.status = "ok",
            !.groups = {[f \in {"gender", "age"} \cup ColSet |->
                           IF f = "gender" THEN k[1]
                           ELSE IF f = "age" THEN k[2]
                           ELSE mean(Column(group(k), f))] : k \in keys}]

-----------------------------------------------------------------------------
(* The tables read_data can load: a JSON array of 1..MaxRows objects, each   *)
(* with the keys age, email, gender, q1..q5.  (An empty array loads as a     *)
(* table without columns, which no operation accepts.)  The row labels of a  *)
(* loaded table are 0..n-1.                                                  *)

MkRow(age, email, gender, g) ==
    [age |-> age, email |-> email, gender |-> gender,
     q1 |-> g[1], q2 |-> g[2], q3 |-> g[3], q4 |-> g[4], q5 |-> g[5]]

ValidMail == <<"a", "@", "a", ".", "a">>

EmailSamples == {ValidMail, <<"a", "a", "a">>, <<"a", "@", ".", "a">>, <<>>}

AgeSamples == {0, 5, 10, 40, 41, 90, 95, 100, 101}

\* the sets of columns a row may miss: every run of adjacent columns
MissingSets == {lo..hi : lo \in 1..Len(cols), hi \in 0..Len(cols)}

\* grades 1 + step * j in the columns j that are not missing
GradeCells(missing, step) ==
    [j \in 1..Len(cols) |-> IF j \in missing THEN NaN ELSE Num(1 + step * j)]

GradeFamily ==
    {MkRow(Num(30), ValidMail, "F", GradeCells(m, 1)) : m \in MissingSets}

AgeFamily ==
    {MkRow(a, ValidMail, "F", GradeCells({}, 1)) :
        a \in {NaN} \cup {Num(n) : n \in AgeSamples}}

MailFamily ==
    {MkRow(a, e, "F", GradeCells({}, 1)) :
        a \in {NaN, Num(20)}, e \in EmailSamples}

CorrFamily ==
    {MkRow(a, ValidMail, g, c) :
        a \in {NaN, Num(40), Num(41)}, g \in {"F", "M"},
        c \in {GradeCells({}, 0), GradeCells({1}, 1)}}

Families == {GradeFamily, AgeFamily, MailFamily, CorrFamily}

Tables ==
    {[index |-> RangeIndex(Len(rows)), rows |-> rows] :
        rows \in UNION {[1..n -> F] : n \in 1..MaxRows, F \in Families}}

\* maximal_nans_per_sub: every threshold up to one above the number of columns
Thresholds == 0..(Len(cols) + 1)

Alphabet == {"a", "@", "."}

Strings == UNION {[1..n -> Alphabet] : n \in 0..MaxLen}

-----------------------------------------------------------------------------
(* The analyzer after __init__ and read_data, and its methods.  No method    *)
(* assigns self.data.                                                        *)

Init ==
    /\ data \in Tables
    /\ loaded = data
    /\ op = "none"
    /\ arg = 0
    /\ ret = NoRet
    /\ again = FALSE

Call(name, a, r, d) ==
    /\ op' = name
    /\ arg' = a
    /\ ret' = r
    /\ again' = (op = name /\ arg = a)
    /\ data' = d
    /\ UNCHANGED loaded

ShowAgeDistrib == Call("show_age_distrib", 0, show_age_distrib(data), data)

RemoveRowsWithoutMail ==
    Call("remove_rows_without_mail", 0, remove_rows_without_mail(data), data)

FillNaWithMean ==
    Call("fill_na_with_mean", 0, fill_na_with_mean(data), self_data_after_fill(data))

ScoreSubjects ==
    \E m \in Thresholds : Call("score_subjects", m, score_subjects(data, m), data)

CorrelateGenderAge ==
    Call("correlate_gender_age", 0, correlate_gender_age(data), data)

Next ==
    \/ ShowAgeDistrib
    \/ RemoveRowsWithoutMail
    \/ FillNaWithMean
    \/ ScoreSubjects
    \/ CorrelateGenderAge

Spec == Init /\ [][Next]_vars

(* validate_mail called on its own, on every string up to MaxLen *)

OneRowTable ==
    [index |-> RangeIndex(1),
     rows |-> <<MkRow(Num(30), ValidMail, "F", GradeCells({}, 1))>>]

InitMail ==
    /\ data = OneRowTable
    /\ loaded = data
    /\ op = "none"
    /\ arg = <<>>
    /\ ret = NoRet
    /\ again = FALSE

ValidateMail ==
    \E email \in Strings :
        Call("validate_mail", email,
             [NoRet EXCEPT
                !.status = IF validate_mail(email) = "IndexError"
                           THEN "IndexError" ELSE "ok",
                !.valid = validate_mail(email)],
             data)

NextMail == ValidateMail

SpecMail == InitMail /\ [][NextMail]_vars

-----------------------------------------------------------------------------
(* Vocabulary of the properties, stated on the loaded table directly *)

Rows == 1..Len(data.rows)

\* the columns of row i that hold no grade, and those that hold one
Missing(i) == {c \in ColSet : isna(data.rows[i][c])}

Present(i) == ColSet \ Missing(i)

RECURSIVE GradeSum(_, _)
\* the sum of the grades of row i over the columns C (all present)
GradeSum(i, C) ==
    IF C = {} THEN 0
    ELSE LET c == CHOOSE x \in C : TRUE
         IN  data.rows[i][c][1] + GradeSum(i, C \ {c})

RECURSIVE ColumnSum(_, _)
\* the sum of column c over the rows R (all present)
ColumnSum(R, c) ==
    IF R = {} THEN 0
    ELSE LET i == CHOOSE x \in R : TRUE
         IN  data.rows[i][c][1] + ColumnSum(R \ {i}, c)

\* x is the number n / d, or NaN when d = 0
IsQuotient(x, n, d) ==
    IF d = 0 THEN x = NaN ELSE x[2] > 0 /\ x[1] * d = n * x[2]

\* the seven rules of a valid mail address
MailRules(s) ==
    /\ Cardinality({i \in 1..Len(s) : s[i] = "@"}) = 1
    /\ \E i \in 1..Len(s) : s[i] = "."
    /\ Len(s) > 0
    /\ s[1] # "@"
    /\ s[1] # "."
    /\ s[Len(s)] # "@"
    /\ s[Len(s)] # "."
    /\ \A i \in 1..(Len(s) - 1) : s[i] = "@" => s[i + 1] # "."

\* the positions of the rows with a valid mail address, and the k-th of them
ValidRows == {i \in Rows : MailRules(data.rows[i].email)}

KthValid(k) == CHOOSE i \in ValidRows : Cardinality({j \in ValidRows : j <= i}) = k

\* the rows with an age, and the rows of the group (gender g, over 40 = o)
Aged == {i \in Rows : notna(data.rows[i].age)}

Group(g, o) ==
    {i \in Aged : data.rows[i].gender = g /\ (data.rows[i].age[1] > 40) = o}

-----------------------------------------------------------------------------
(* C1: fill_na_with_mean replaces every missing grade of a row by the mean   *)
(* of that same row's present grades and returns the present grades          *)
(* unchanged.  The code fills with the mean of the column.                   *)
C1_FillsWithRowMean ==
    op = "fill_na_with_mean" =>
        /\ ret.status = "ok"
        /\ Len(ret.df.rows) = Len(data.rows)
        /\ \A i \in Rows : \A c \in ColSet :
              IF c \in Missing(i)
              THEN IsQuotient(ret.df.rows[i][c],
                              GradeSum(i, Present(i)), Cardinality(Present(i)))
              ELSE ret.df.rows[i][c] = data.rows[i][c]

(* What the code does instead: a missing grade becomes the mean of the      *)
(* present grades of its column, over all rows.                              *)
FillsWithColumnMean ==
    op = "fill_na_with_mean" =>
        /\ ret.status = "ok"
        /\ Len(ret.df.rows) = Len(data.rows)
        /\ \A i \in Rows : \A c \in ColSet :
              LET R == {k \in Rows : notna(data.rows[k][c])}
              IN  IF c \in Missing(i)
                  THEN IsQuotient(ret.df.rows[i][c], ColumnSum(R, c), Cardinality(R))
                  ELSE ret.df.rows[i][c] = data.rows[i][c]

\* the score the rule of score_subjects gives row i under threshold m
RuleScore(i, m) ==
    IF Cardinality(Missing(i)) > m
    THEN NA
    ELSE Num(GradeSum(i, Present(i)) \div Cardinality(Present(i)))

(* C2: score_subjects(m) returns a table in which the score of every row is  *)
(* the missing marker when more than m grades are missing, and otherwise     *)
(* the floor of the mean of the present grades.                              *)
C2_ScoreRule ==
    op = "score_subjects" =>
        /\ ret.status = "ok"
        /\ Len(ret.df.rows) = Len(data.rows)
        /\ \A i \in Rows : ret.df.rows[i].score = RuleScore(i, arg)

(* The rule of C2 on the calls that return: when score_subjects returns a    *)
(* table, every score follows the rule.                                      *)
ScoreRuleWhenReturned ==
    (op = "score_subjects" /\ ret.status = "ok") =>
        /\ Len(ret.df.rows) = Len(data.rows)
        /\ \A i \in Rows :
              /\ ret.df.rows[i].score = RuleScore(i, arg)
              /\ \A f \in DOMAIN data.rows[i] : ret.df.rows[i][f] = data.rows[i][f]

(* C3: validate_mail returns true exactly when the seven rules hold, and     *)
(* false for every other string.                                             *)
C3_ValidateMailRules ==
    op = "validate_mail" =>
        ret.valid = (IF MailRules(arg) THEN "True" ELSE "False")

C3_Witness ==
    op = "validate_mail" /\ ret.valid = "True" /\ Len(arg) = MaxLen

(* C4: remove_rows_without_mail returns exactly the rows whose mail address  *)
(* is valid, whole, in their original order, labelled 0..k-1, and leaves     *)
(* the stored table as loaded.                                               *)
C4_RemoveRowsWithoutMail ==
    op = "remove_rows_without_mail" =>
        /\ ret.status = "ok"
        /\ Len(ret.df.rows) = Cardinality(ValidRows)
        /\ ret.df.index = [k \in 1..Cardinality(ValidRows) |-> k - 1]
        /\ \A k \in 1..Cardinality(ValidRows) : ret.df.rows[k] = data.rows[KthValid(k)]
        /\ data = loaded

C4_Witness ==
    /\ op = "remove_rows_without_mail"
    /\ Len(data.rows) >= 2
    /\ 1 \notin ValidRows
    /\ 2 \in ValidRows
    /\ ret.df.rows[1] = data.rows[2]

(* C5: show_age_distrib returns the edges 0, 10, .., 100 and ten counts:     *)
(* count i (i = 0..8) is the number of rows with 10 i <= age < 10 (i + 1),   *)
(* count 9 is the number of rows with 90 <= age <= 100; a row without an     *)
(* age is counted nowhere, and without any age every count is zero.          *)
C5_AgeHistogram ==
    op = "show_age_distrib" =>
        /\ ret.status = "ok"
        /\ ret.bins = [k \in 1..11 |-> 10 * (k - 1)]
        /\ Len(ret.hist) = 10
        /\ \A b \in 0..8 :
              ret.hist[b + 1] =
                  Cardinality({i \in Aged : /\ 10 * b <= data.rows[i].age[1]
                                            /\ data.rows[i].age[1] < 10 * (b + 1)})
        /\ ret.hist[10] =
              Cardinality({i \in Aged : /\ 90 <= data.rows[i].age[1]
                                        /\ data.rows[i].age[1] <= 100})
        /\ (Aged = {} => \A b \in 1..10 : ret.hist[b] = 0)

C5_Witness ==
    /\ op = "show_age_distrib"
    /\ \E i \in Rows : isna(data.rows[i].age)
    /\ \E i \in Rows : data.rows[i].age = Num(100)
    /\ ret.hist[10] = 1
    /\ ret.hist[1] = 0

(* C6: correlate_gender_age returns exactly one row for each (gender, over   *)
(* 40) pair observed among the rows with an age, over 40 meaning age > 40;   *)
(* each of its five values is the mean of the present grades of that         *)
(* question over the rows of the group; rows without an age are in no group. *)
C6_GenderAgeGroups ==
    op = "correlate_gender_age" =>
        /\ ret.status = "ok"
        /\ \A g \in ret.groups : g.age \in {PyFalse, PyTrue}
        /\ \A i \in Aged :
              Cardinality({g \in ret.groups :
                  /\ g.gender = data.rows[i].gender
                  /\ (g.age = PyTrue) = (data.rows[i].age[1] > 40)}) = 1
        /\ \A g \in ret.groups :
              LET G == Group(g.gender, g.age = PyTrue)
              IN  /\ G # {}
                  /\ \A c \in ColSet :
                        LET P == {i \in G : notna(data.rows[i][c])}
                        IN  IsQuotient(g[c], ColumnSum(P, c), Cardinality(P))

C6_Witness ==
    /\ op = "correlate_gender_age"
    /\ \E i \in Rows : isna(data.rows[i].age)
    /\ \E i \in Rows : data.rows[i].age = Num(40)
    /\ Cardinality(ret.groups) = 1
    /\ \A g \in ret.groups : g.age = PyFalse

(* C7: the index sequence of fill_na_with_mean holds exactly the positions   *)
(* of the rows with a missing grade, each once, in ascending order.          *)
C7_FilledRowIndices ==
    op = "fill_na_with_mean" =>
        /\ \A k \in 1..(Len(ret.arr) - 1) : ret.arr[k] < ret.arr[k + 1]
        /\ {ret.arr[k] : k \in 1..Len(ret.arr)} = {i - 1 : i \in {j \in Rows : Missing(j) # {}}}

C7_Witness ==
    /\ op = "fill_na_with_mean"
    /\ Len(data.rows) >= 2
    /\ Missing(1) = {}
    /\ Missing(2) # {}
    /\ ret.arr = <<1>>

(* C8: no call changes the stored table, which stays equal to the table as   *)
(* loaded whether the call returns or raises; a call repeated with the same  *)
(* argument gives the same result.                                           *)
C8_DataUnchanged ==
    [][/\ data' = data
       /\ data' = loaded'
       /\ (op' = op /\ arg' = arg) => ret' = ret]_vars

C8_Witness ==
    /\ again
    /\ op = "fill_na_with_mean"
    /\ Len(ret.arr) > 0
    /\ ret.df # data
    /\ data = loaded

(* C9: score_subjects returns without raising on a table that has a row      *)
(* with no grade at all, for every threshold; under a threshold below 5      *)
(* that row's score is the missing marker and the other rows are scored by   *)
(* the rule.                                                                 *)
C9_ScoresAllMissingRow ==
    (op = "score_subjects" /\ \E i \in Rows : Present(i) = {}) =>
        /\ ret.status = "ok"
        /\ arg < Len(cols) =>
              \A i \in Rows : ret.df.rows[i].score = RuleScore(i, arg)

(* C10: validate_mail reads no position outside the string: on the empty     *)
(* string, on a string of length 1 and on a string ending in "@" it returns  *)
(* false and raises nothing.                                                 *)
C10_NoOutOfRange ==
    op = "validate_mail" =>
        /\ ret.status = "ok"
        /\ ret.valid \in {"True", "False"}
        /\ (Len(arg) <= 1 \/ arg[Len(arg)] = "@") => ret.valid = "False"

C10_Witness ==
    /\ op = "validate_mail"
    /\ Len(arg) > 1
    /\ arg[Len(arg)] = "@"
    /\ arg[1] = "a"
    /\ \E i \in 1..Len(arg) : arg[i] = "."
    /\ Cardinality({i \in 1..Len(arg) : arg[i] = "@"}) = 1
    /\ ret.valid = "False"

=============================================================================
